---- MODULE Spec2Model ----
(***************************************************************************)
(* A model of the Earley parser of visanalexandru/earley-parser:           *)
(*   src/src/grammar.rs                 Grammar::from_rules                *)
(*   src/src/grammar/parser.rs          prediction / scan / complete /     *)
(*                                      parse                              *)
(*   src/src/grammar/parser/parse_tree.rs   build_parse_tree               *)
(*                                                                         *)
(* A text (&str) is a sequence of characters, a character is a string of   *)
(* length one.  A hash set is a set; the order in which a hash set is      *)
(* iterated is chosen by every handler call.                               *)
(***************************************************************************)
EXTENDS Integers, Sequences, FiniteSets, TLC

VARIABLES
    text,       \* the grammar text handed to Grammar::from_rules
    grammar,    \* the value from_rules returned: Ok(Grammar) or Err(ParseError)
    s,          \* the input of the running parse call
    sets,       \* EarleyTable.sets: chart position -> set of EarleyState
    position,   \* the chart position whose fixed-point loop is running
    old_size,   \* old_size of the running round
    result,     \* the Vec of parse trees parse returns
    panicked,   \* a step of parse failed (index out of bounds, unwrap on None)
    pc          \* where the program is

vars == <<text, grammar, s, sets, position, old_size, result, panicked, pc>>

----------------------------------------------------------------------------
(* Bounds of the model.                                                    *)

MaxRuleLines == 2   \* rule lines of an enumerated grammar text
MaxInputLen == 3    \* characters of an input
MaxRot == 1         \* rotations of an iteration order that are tried
MaxItems == 24      \* a chart set is not grown beyond this many items
MaxPermSet == 4     \* sets up to this size are compared in every order

----------------------------------------------------------------------------
(* Characters.                                                             *)

NL == "\n"
CR == "\r"
EAcute == "U+00E9"      \* a character outside ASCII: two bytes in UTF-8

UpperChars ==
    {"A", "B", "C", "D", "E", "F", "G", "H", "I", "J", "K", "L", "M",
     "N", "O", "P", "Q", "R", "S", "T", "U", "V", "W", "X", "Y", "Z"}

TerminalChars ==
    {"a", "b", "c", "d", "e", "f", "g", "h", "i", "j", "k", "l", "m",
     "n", "o", "p", "q", "r", "s", "t", "u", "v", "w", "x", "y", "z",
     "0", "1", "2", "3", "4", "5", "6", "7", "8", "9",
     "+", "-", "*", "(", ")", "/"}

WhiteSpace == {" ", "\t", NL, CR}

len_utf8(c) == IF c = EAcute THEN 2 ELSE 1

RECURSIVE str_len(_)
str_len(str) ==
    IF str = <<>> THEN 0 ELSE len_utf8(Head(str)) + str_len(Tail(str))

----------------------------------------------------------------------------
(* str::lines, str::trim, str::split_whitespace.                           *)

RECURSIVE FirstNL(_, _)
FirstNL(str, i) ==
    IF i > Len(str) THEN 0
    ELSE IF str[i] = NL THEN i ELSE FirstNL(str, i + 1)

StripCR(line) ==
    IF line # <<>> /\ line[Len(line)] = CR
    THEN SubSeq(line, 1, Len(line) - 1) ELSE line

RECURSIVE lines(_)
lines(str) ==
    IF str = <<>> THEN <<>>
    ELSE LET i == FirstNL(str, 1)
         IN IF i = 0 THEN <<str>>
            ELSE <<StripCR(SubSeq(str, 1, i - 1))>>
                     \o lines(SubSeq(str, i + 1, Len(str)))

RECURSIVE trim_start(_)
trim_start(str) ==
    IF str # <<>> /\ Head(str) \in WhiteSpace THEN trim_start(Tail(str))
    ELSE str

RECURSIVE trim_end(_)
trim_end(str) ==
    IF str # <<>> /\ str[Len(str)] \in WhiteSpace
    THEN trim_end(SubSeq(str, 1, Len(str) - 1))
    ELSE str

trim(str) == trim_end(trim_start(str))

RECURSIVE WordEnd(_, _)
WordEnd(str, i) ==
    IF i > Len(str) \/ str[i] \in WhiteSpace THEN i ELSE WordEnd(str, i + 1)

RECURSIVE split_whitespace(_)
split_whitespace(str) ==
    LET t == trim_start(str)
    IN IF t = <<>> THEN <<>>
       ELSE LET e == WordEnd(t, 1)
            IN <<SubSeq(t, 1, e - 1)>>
                   \o split_whitespace(SubSeq(t, e, Len(t)))

----------------------------------------------------------------------------
(* The regular expressions of grammar.rs.  Each matcher returns the        *)
(* position after the longest match that starts at position i; the         *)
(* character classes that follow one another are disjoint, so the longest  *)
(* match is the only one that can lead to a match of the whole pattern.    *)

RECURSIVE SkipUpper(_, _)
SkipUpper(str, i) ==
    IF i <= Len(str) /\ str[i] \in UpperChars THEN SkipUpper(str, i + 1)
    ELSE i

RECURSIVE SkipSpace(_, _)
SkipSpace(str, i) ==
    IF i <= Len(str) /\ str[i] \in WhiteSpace THEN SkipSpace(str, i + 1)
    ELSE i

\* [A-Z]+ without its anchors
first_line_regex_unanchored(str) ==
    \E i \in 1..Len(str) : str[i] \in UpperChars

\* ^[A-Z]+$
first_line_regex(str) ==
    str # <<>> /\ SkipUpper(str, 1) = Len(str) + 1

\* [a-z+\-\*0-9\(\)/], not anchored: it matches anywhere in the word
terminal_regex(str) ==
    \E i \in 1..Len(str) : str[i] \in TerminalChars

\* (\s+([A-Z]+|[a-z+\-\*0-9\(\)/]))*$ from position i
RECURSIVE MatchTokens(_, _)
MatchTokens(str, i) ==
    IF i = Len(str) + 1 THEN TRUE
    ELSE LET j == SkipSpace(str, i)
         IN /\ j > i
            /\ j <= Len(str)
            /\ IF str[j] \in UpperChars
               THEN MatchTokens(str, SkipUpper(str, j))
               ELSE /\ str[j] \in TerminalChars
                    /\ MatchTokens(str, j + 1)

\* ^[A-Z]+\s+->(\s+([A-Z]+|[a-z+\-\*0-9\(\)/]))*$
rule_regex(str) ==
    LET i == SkipUpper(str, 1)
        j == SkipSpace(str, i)
    IN /\ i > 1
       /\ j > i
       /\ j + 1 <= Len(str)
       /\ str[j] = "-"
       /\ str[j + 1] = ">"
       /\ MatchTokens(str, j + 2)

----------------------------------------------------------------------------
(* Tokens, rules, Grammar::from_rules.                                     *)

NT(name) == [kind |-> "NT", sym |-> name]
T(c) == [kind |-> "T", sym |-> <<c>>]

Rule(from, to) == [from |-> from, to |-> to]

MissingStart == [err |-> "MissingStart", line_num |-> 0]
InvalidStart == [err |-> "InvalidStart", line_num |-> 0]
InvalidRule(n) == [err |-> "InvalidRule", line_num |-> n]

\* the token a word of a rule line stands for
WordToken(word) ==
    IF terminal_regex(word) THEN T(Head(word)) ELSE NT(word)

\* the rule a line that matches rule_regex stands for
LineRule(line) ==
    LET words == split_whitespace(line)
    IN Rule(words[1],
            [i \in 1..(Len(words) - 2) |-> WordToken(words[i + 2])])

\* the loop over the lines after the first one; n is the value of line_num
RECURSIVE BuildRules(_, _, _)
BuildRules(ls, n, rules) ==
    IF ls = <<>> THEN [err |-> "none", rules |-> rules]
    ELSE LET line == trim(Head(ls))
         IN IF ~rule_regex(line) THEN InvalidRule(n)
            ELSE BuildRules(Tail(ls), n + 1, Append(rules, LineRule(line)))

RuleTokens(rules) ==
    UNION {{rules[i].to[j] : j \in 1..Len(rules[i].to)} : i \in 1..Len(rules)}

\* the keys of the nonterminals map, the start line not counted
RuleNonterminals(rules) ==
    {rules[i].from : i \in 1..Len(rules)}
        \cup {tok.sym : tok \in {x \in RuleTokens(rules) : x.kind = "NT"}}

\* the values of the terminals map
RuleTerminals(rules) ==
    {tok.sym[1] : tok \in {x \in RuleTokens(rules) : x.kind = "T"}}

from_rules(str) ==
    LET ls == lines(str)
    IN IF ls = <<>> THEN MissingStart
       ELSE LET first_line == trim(Head(ls))
            IN IF ~first_line_regex(first_line) THEN InvalidStart
               ELSE LET built == BuildRules(Tail(ls), 0, <<>>)
                    IN IF built.err # "none" THEN built
                       ELSE [err |-> "none",
                             start |-> first_line,
                             rules |-> built.rules,
                             nonterminals |->
                                 {first_line} \cup RuleNonterminals(built.rules),
                             terminals |-> RuleTerminals(built.rules)]

IsOk(g) == g.err = "none"

----------------------------------------------------------------------------
(* EarleyState and its derived equality.                                   *)

EarleyState(rule, dot, origin, children) ==
    [rule |-> rule, dot |-> dot, origin |-> origin, children |-> children]

\* a rule that is told apart by its place in the rules of the grammar
RuleRefByAddress(rules, i) ==
    [from |-> rules[i].from, to |-> rules[i].to, addr |-> i]

\* rule: &'a Rule<'a>.  The derived PartialEq and Hash of a reference are
\* those of the value it points to, so an item holds the rule by value.
RuleRef(rules, i) == rules[i]

is_finished(state) == state.dot = Len(state.rule.to)

\* self.rule.to[self.dot] is out of bounds
current_token_fails(state) == state.dot >= Len(state.rule.to)

current_token(state) == state.rule.to[state.dot + 1]

\* an equality that does not look at the children
EarleyStateEqShallow(a, b) ==
    /\ a.rule = b.rule
    /\ a.dot = b.dot
    /\ a.origin = b.origin

\* #[derive(Eq, PartialEq)] of EarleyState; Rc<EarleyState> compares the
\* values it points to
RECURSIVE EarleyStateEq(_, _)
EarleyStateEq(a, b) ==
    /\ a.rule = b.rule
    /\ a.dot = b.dot
    /\ a.origin = b.origin
    /\ Len(a.children) = Len(b.children)
    /\ \A i \in 1..Len(a.children) :
           EarleyStateEq(a.children[i], b.children[i])

\* HashSet::insert: the value is not added when an equal one is present
insert(set, state) ==
    IF \E other \in set : EarleyStateEq(state, other) THEN set
    ELSE set \cup {state}

RECURSIVE insert_all(_, _)
insert_all(set, to_add) ==
    IF to_add = <<>> THEN set
    ELSE insert_all(insert(set, Head(to_add)), Tail(to_add))

----------------------------------------------------------------------------
(* The order in which HashSet::iter visits a set.  It is not specified;    *)
(* an order mode m picks one: a fixed enumeration of the set, reversed or  *)
(* not, rotated by m.rot places.                                           *)

OrderModes == [rev : BOOLEAN, rot : 0..MaxRot]

RECURSIVE SetToSeq(_)
SetToSeq(set) ==
    IF set = {} THEN <<>>
    ELSE LET x == CHOOSE y \in set : TRUE
         IN <<x>> \o SetToSeq(set \ {x})

Reverse(seq) == [i \in 1..Len(seq) |-> seq[Len(seq) + 1 - i]]

Rotate(seq, n) ==
    IF seq = <<>> THEN seq
    ELSE [i \in 1..Len(seq) |-> seq[((i - 1 + n) % Len(seq)) + 1]]

iter(set, m) ==
    LET seq == SetToSeq(set)
    IN Rotate(IF m.rev THEN Reverse(seq) ELSE seq, m.rot)

----------------------------------------------------------------------------
(* Grammar::prediction, Grammar::scan, Grammar::complete.  Each returns    *)
(* the table it leaves and whether it panicked.                            *)

Outcome(table, panic) == [sets |-> table, panic |-> panic]

\* prediction that gives the new states the origin 0
RECURSIVE PredictedForOriginZero(_, _, _, _)
PredictedForOriginZero(rules, i, nonterminal, k) ==
    IF i > Len(rules) THEN <<>>
    ELSE (IF rules[i].from = nonterminal
          THEN <<EarleyState(RuleRef(rules, i), 0, 0, <<>>)>>
          ELSE <<>>)
         \o PredictedForOriginZero(rules, i + 1, nonterminal, k)

\* prediction that leaves out the rules with nothing on their right
RECURSIVE PredictedForNonEmpty(_, _, _, _)
PredictedForNonEmpty(rules, i, nonterminal, k) ==
    IF i > Len(rules) THEN <<>>
    ELSE (IF rules[i].from = nonterminal /\ rules[i].to # <<>>
          THEN <<EarleyState(RuleRef(rules, i), 0, k, <<>>)>>
          ELSE <<>>)
         \o PredictedForNonEmpty(rules, i + 1, nonterminal, k)

\* for rule in self.rules.iter() { if rule.from == nonterminal { push } }
RECURSIVE PredictedFor(_, _, _, _)
PredictedFor(rules, i, nonterminal, k) ==
    IF i > Len(rules) THEN <<>>
    ELSE (IF rules[i].from = nonterminal
          THEN <<EarleyState(RuleRef(rules, i), 0, k, <<>>)>>
          ELSE <<>>)
         \o PredictedFor(rules, i + 1, nonterminal, k)

\* the body of the loop of prediction for one state
PredictionStep(g, state, k) ==
    IF is_finished(state) THEN <<>>
    ELSE IF current_token(state).kind = "T" THEN <<>>
    ELSE PredictedFor(g.rules, 1, current_token(state).sym, k)

RECURSIVE PredictionToAdd(_, _, _)
PredictionToAdd(g, order, k) ==
    IF order = <<>> THEN <<>>
    ELSE PredictionStep(g, Head(order), k)
             \o PredictionToAdd(g, Tail(order), k)

\* an unfinished state of the set has no current token
TokenFails(set) ==
    \E state \in set : ~is_finished(state) /\ current_token_fails(state)

prediction(g, table, k, m) ==
    IF k \notin DOMAIN table \/ TokenFails(table[k]) THEN Outcome(table, TRUE)
    ELSE Outcome([table EXCEPT ![k] =
                      insert_all(@, PredictionToAdd(g, iter(table[k], m), k))],
                 FALSE)

\* scan that takes any terminal for the next character
ScanStepAnyChar(state, next_char) ==
    IF is_finished(state) THEN <<>>
    ELSE IF current_token(state).kind = "NT" THEN <<>>
    ELSE <<EarleyState(state.rule, state.dot + 1, state.origin,
                       state.children)>>

\* scan that makes the advanced state with EarleyState::new: no children
ScanStepNew(state, next_char) ==
    IF is_finished(state) THEN <<>>
    ELSE IF current_token(state).kind = "NT" THEN <<>>
    ELSE IF current_token(state).sym[1] # next_char THEN <<>>
    ELSE <<EarleyState(state.rule, state.dot + 1, state.origin, <<>>)>>

\* the body of the loop of scan for one state
ScanStep(state, next_char) ==
    IF is_finished(state) THEN <<>>
    ELSE IF current_token(state).kind = "NT" THEN <<>>
    ELSE IF current_token(state).sym[1] # next_char THEN <<>>
    ELSE <<EarleyState(state.rule, state.dot + 1, state.origin,
                       state.children)>>

\* the loop of scan left at the first state that is advanced
RECURSIVE ScanToAddFirst(_, _)
ScanToAddFirst(order, next_char) ==
    IF order = <<>> THEN <<>>
    ELSE IF ScanStep(Head(order), next_char) # <<>>
    THEN ScanStep(Head(order), next_char)
    ELSE ScanToAddFirst(Tail(order), next_char)

RECURSIVE ScanToAdd(_, _)
ScanToAdd(order, next_char) ==
    IF order = <<>> THEN <<>>
    ELSE ScanStep(Head(order), next_char) \o ScanToAdd(Tail(order), next_char)

\* scan that adds to the set it reads
scan_in_place(table, k, next_char, m) ==
    IF k \notin DOMAIN table \/ TokenFails(table[k]) THEN Outcome(table, TRUE)
    ELSE LET to_add == ScanToAdd(iter(table[k], m), next_char)
         IN Outcome([table EXCEPT ![k] = insert_all(@, to_add)], FALSE)

scan(table, k, next_char, m) ==
    IF k \notin DOMAIN table \/ TokenFails(table[k]) THEN Outcome(table, TRUE)
    ELSE LET to_add == ScanToAdd(iter(table[k], m), next_char)
         IN IF to_add = <<>> THEN Outcome(table, FALSE)
            ELSE IF k + 1 \notin DOMAIN table THEN Outcome(table, TRUE)
            ELSE Outcome([table EXCEPT ![k + 1] = insert_all(@, to_add)],
                         FALSE)

\* the body of the inner loop that does not compare the nonterminals
CompleteStepAnyNonterminal(state, old_state) ==
    IF is_finished(old_state) THEN <<>>
    ELSE IF current_token(old_state).kind = "T" THEN <<>>
    ELSE <<EarleyState(old_state.rule, old_state.dot + 1, old_state.origin,
                       Append(old_state.children, state))>>

\* the body of the inner loop that advances the dot and adds no child
CompleteStepNoChild(state, old_state) ==
    IF is_finished(old_state) THEN <<>>
    ELSE IF current_token(old_state).kind = "T" THEN <<>>
    ELSE IF current_token(old_state).sym # state.rule.from THEN <<>>
    ELSE <<EarleyState(old_state.rule, old_state.dot + 1, old_state.origin,
                       old_state.children)>>

\* the body of the inner loop of complete for one old state
CompleteStep(state, old_state) ==
    IF is_finished(old_state) THEN <<>>
    ELSE IF current_token(old_state).kind = "T" THEN <<>>
    ELSE IF current_token(old_state).sym # state.rule.from THEN <<>>
    ELSE <<EarleyState(old_state.rule, old_state.dot + 1, old_state.origin,
                       Append(old_state.children, state))>>

\* the inner loop of complete left at the first old state that waits
RECURSIVE CompleteInnerFirst(_, _)
CompleteInnerFirst(state, old_order) ==
    IF old_order = <<>> THEN <<>>
    ELSE IF CompleteStep(state, Head(old_order)) # <<>>
    THEN CompleteStep(state, Head(old_order))
    ELSE CompleteInnerFirst(state, Tail(old_order))

RECURSIVE CompleteInner(_, _)
CompleteInner(state, old_order) ==
    IF old_order = <<>> THEN <<>>
    ELSE CompleteStep(state, Head(old_order))
             \o CompleteInner(state, Tail(old_order))

RECURSIVE CompleteToAdd(_, _, _)
CompleteToAdd(table, order, m) ==
    IF order = <<>> THEN <<>>
    ELSE (IF is_finished(Head(order))
          THEN CompleteInner(Head(order),
                             iter(table[Head(order).origin], m))
          ELSE <<>>)
         \o CompleteToAdd(table, Tail(order), m)

\* complete indexes a set that does not exist or asks a state for a token
\* it does not have
CompleteFails(table, k) ==
    \E state \in table[k] :
        /\ is_finished(state)
        /\ \/ state.origin \notin DOMAIN table
           \/ TokenFails(table[state.origin])

complete(table, k, m) ==
    IF k \notin DOMAIN table \/ CompleteFails(table, k)
    THEN Outcome(table, TRUE)
    ELSE Outcome([table EXCEPT ![k] =
                      insert_all(@, CompleteToAdd(table, iter(table[k], m), m))],
                 FALSE)

----------------------------------------------------------------------------
(* parse_tree::build_parse_tree.                                           *)

ParseNode(token, children) == [token |-> token, children |-> children]

\* state_children.next().unwrap() finds no child left, here or below
RECURSIVE unwrap_fails(_)
RECURSIVE ChildrenFail(_, _)
ChildrenFail(to, state_children) ==
    IF to = <<>> THEN FALSE
    ELSE IF Head(to).kind = "T" THEN ChildrenFail(Tail(to), state_children)
    ELSE \/ state_children = <<>>
         \/ unwrap_fails(Head(state_children))
         \/ ChildrenFail(Tail(to), Tail(state_children))

unwrap_fails(state) == ChildrenFail(state.rule.to, state.children)

RECURSIVE build_parse_tree(_)

\* the loop over the tokens that makes no leaf for a terminal
RECURSIVE NodeChildrenNoLeaves(_, _)
NodeChildrenNoLeaves(to, state_children) ==
    IF to = <<>> THEN <<>>
    ELSE IF Head(to).kind = "T"
         THEN NodeChildrenNoLeaves(Tail(to), state_children)
         ELSE <<build_parse_tree(Head(state_children))>>
                  \o NodeChildrenNoLeaves(Tail(to), Tail(state_children))

\* the loop over the tokens that makes a childless node for a nonterminal
\* and does not descend into the child
RECURSIVE NodeChildrenShallow(_, _)
NodeChildrenShallow(to, state_children) ==
    IF to = <<>> THEN <<>>
    ELSE IF Head(to).kind = "T"
         THEN <<ParseNode(Head(to), <<>>)>>
                  \o NodeChildrenShallow(Tail(to), state_children)
         ELSE <<ParseNode(Head(to), <<>>)>>
                  \o NodeChildrenShallow(Tail(to), Tail(state_children))

RECURSIVE NodeChildren(_, _)
NodeChildren(to, state_children) ==
    IF to = <<>> THEN <<>>
    ELSE IF Head(to).kind = "T"
         THEN <<ParseNode(Head(to), <<>>)>>
                  \o NodeChildren(Tail(to), state_children)
         ELSE <<build_parse_tree(Head(state_children))>>
                  \o NodeChildren(Tail(to), Tail(state_children))

build_parse_tree(state) ==
    ParseNode(NT(state.rule.from),
              NodeChildren(state.rule.to, state.children))

----------------------------------------------------------------------------
(* Grammar::parse, cut at the calls it makes.                              *)

\* a table that is one set short
EarleyTableNewShort(size) == [i \in 0..(size - 2) |-> {}]

\* EarleyTable::new(size)
EarleyTableNew(size) == [i \in 0..(size - 1) |-> {}]

\* for rule in self.rules.iter() { if rule.from == self.start { insert } }
RECURSIVE StartStates(_, _)
StartStates(g, i) ==
    IF i > Len(g.rules) THEN <<>>
    ELSE (IF g.rules[i].from = g.start
          THEN <<EarleyState(RuleRef(g.rules, i), 0, 0, <<>>)>>
          ELSE <<>>)
         \o StartStates(g, i + 1)

\* the table before the first round: s.len() counts bytes
InitialTable(g, str) ==
    [EarleyTableNew(str_len(str) + 1) EXCEPT
         ![0] = insert_all(@, StartStates(g, 1))]

\* let last = s.len()
last(str) == str_len(str)

\* the test without is_finished
AcceptedAnyDot(g, state) ==
    /\ state.rule.from = g.start
    /\ state.origin = 0

\* the test without the origin
AcceptedAnyOrigin(g, state) ==
    /\ state.rule.from = g.start
    /\ is_finished(state)

\* the test of the loop that collects the result
Accepted(g, state) ==
    /\ state.rule.from = g.start
    /\ is_finished(state)
    /\ state.origin = 0

RECURSIVE CollectTrees(_, _)
CollectTrees(g, order) ==
    IF order = <<>> THEN <<>>
    ELSE (IF Accepted(g, Head(order))
          THEN <<build_parse_tree(Head(order))>>
          ELSE <<>>)
         \o CollectTrees(g, Tail(order))

CollectFails(g, set) ==
    \E state \in set : Accepted(g, state) /\ unwrap_fails(state)

----------------------------------------------------------------------------
(* Grammar texts and inputs.                                               *)

StartLines ==
    { <<"S">>,                  \* S
      <<" ", "S", "\t">>,       \* S between white space
      <<"S", "A">>,             \* SA
      <<>>,                     \* an empty first line
      <<"s">>,                  \* s
      <<"S", " ", "a">>,        \* S a
      <<"S", "-">> }            \* S-

RuleLines ==
    { <<"S", " ", "-", ">", " ", "S", " ", "S">>,       \* S -> S S
      <<"S", "\t", "-", ">", " ", " ", "a">>,           \* S -> a
      <<" ", "S", " ", "-", ">", " ">>,                 \* S ->
      <<" ">>,                                          \* a blank line
      <<"S", " ", "-", " ", ">", " ", "a">> }           \* S - > a

\* grammars of the tests of parser.rs, cut to the size of the inputs
TestGrammars ==
    { \* test_grammar_lambda: a chain of unit rules that ends in an empty rule
      << <<"S">>,
         <<"S", " ", "-", ">", " ", "C", " ", "a", " ", "C">>,
         <<"C", " ", "-", ">", " ", "D">>,
         <<"D", " ", "-", ">">> >>,
      \* test_palindrome_grammar
      << <<"S">>,
         <<"S", " ", "-", ">", " ", "a", " ", "S", " ", "a">>,
         <<"S", " ", "-", ">", " ", "b", " ", "S", " ", "b">>,
         <<"S", " ", "-", ">">>,
         <<"S", " ", "-", ">", " ", "a">>,
         <<"S", " ", "-", ">", " ", "b">> >>,
      \* test_paranthesis_grammar, a for ( and b for )
      << <<"S">>,
         <<"S", " ", "-", ">", " ", "a", " ", "S", " ", "b", " ", "S">>,
         <<"S", " ", "-", ">">> >>,
      \* test_grammar_ab without its rule A -> B A
      << <<"S">>,
         <<"S", " ", "-", ">", " ", "A", " ", "B">>,
         <<"S", " ", "-", ">", " ", "B">>,
         <<"A", " ", "-", ">", " ", "a">>,
         <<"B", " ", "-", ">", " ", "A">>,
         <<"B", " ", "-", ">", " ", "b">> >>,
      \* test_grammar_aa: a rule that is listed twice, a rule that is not used
      << <<"S">>,
         <<"S", " ", "-", ">", " ", "A", " ", "A">>,
         <<"A", " ", "-", ">", " ", "a", " ", "A">>,
         <<"A", " ", "-", ">", " ", "b">>,
         <<"A", " ", "-", ">", " ", "a", " ", "A">>,
         <<"B", " ", "-", ">", " ", "b">> >>,
      \* a unit rule that leads back to its own nonterminal
      << <<"S">>,
         <<"S", " ", "-", ">", " ", "S">>,
         <<"S", " ", "-", ">", " ", "a">> >> }

SeqsUpTo(set, n) == UNION {[1..i -> set] : i \in 0..n}

RECURSIVE JoinLines(_)
JoinLines(ls) ==
    IF ls = <<>> THEN <<>>
    ELSE IF Len(ls) = 1 THEN Head(ls)
    ELSE Head(ls) \o <<NL>> \o JoinLines(Tail(ls))

Texts ==
    {<<>>}
        \cup {JoinLines(<<<<"S">>>> \o rs) : rs \in SeqsUpTo(RuleLines, MaxRuleLines)}
        \cup {JoinLines(<<st>>) \o end : st \in StartLines, end \in {<<>>, <<NL>>}}
        \cup {JoinLines(<<st, <<"S", " ", "-", ">", " ", "a">> >>) :
                  st \in StartLines}
        \cup {JoinLines(ls) : ls \in TestGrammars}

InputChars == {"a", "b"}

\* str with the character at place i replaced by c
Replace(str, i, c) == [str EXCEPT ![i] = c]

\* the inputs over InputChars, and inputs with a character outside ASCII
Inputs ==
    SeqsUpTo(InputChars, MaxInputLen)
        \cup UNION {{Replace(str, i, EAcute) : i \in 1..Len(str)} :
                        str \in SeqsUpTo({"a"}, MaxInputLen)}

----------------------------------------------------------------------------
(* The program.                                                            *)

Init ==
    /\ text \in Texts
    /\ grammar = [err |-> "unset"]
    /\ s = <<>>
    /\ sets = EarleyTableNew(0)
    /\ position = 0
    /\ old_size = 0
    /\ result = <<>>
    /\ panicked = FALSE
    /\ pc = "from_rules"

Fits(table) == \A k \in DOMAIN table : Cardinality(table[k]) <= MaxItems

\* the length of the set after the one that is asked for
SetLenNext(table, k) ==
    IF k + 1 \in DOMAIN table THEN Cardinality(table[k + 1]) ELSE 0

\* table.sets[k].len(); the index is checked by the handler that follows
SetLen(table, k) == IF k \in DOMAIN table THEN Cardinality(table[k]) ELSE 0

\* the step after a handler returned out
Continue(out, next_pc) ==
    /\ Fits(out.sets)
    /\ sets' = out.sets
    /\ panicked' = out.panic
    /\ pc' = IF out.panic THEN "panic" ELSE next_pc

FromRules ==
    /\ pc = "from_rules"
    /\ grammar' = from_rules(text)
    /\ pc' = IF IsOk(grammar') THEN "ready" ELSE "error"
    /\ UNCHANGED <<text, s, sets, position, old_size, result, panicked>>

\* parse is called: the table is made and the start rules are added
ParseBegin ==
    /\ pc = "ready"
    /\ \E str \in Inputs :
           /\ s' = str
           /\ sets' = InitialTable(grammar, str)
           /\ position' = IF str = <<>> THEN last(str) ELSE 0
           /\ pc' = IF str = <<>> THEN "last_prediction" ELSE "prediction"
    /\ UNCHANGED <<text, grammar, old_size, result, panicked>>

\* a round of the loop of a position starts: old_size, then prediction
Prediction ==
    /\ pc = "prediction"
    /\ old_size' = SetLen(sets, position)
    /\ \E m \in OrderModes :
           Continue(prediction(grammar, sets, position, m), "scan")
    /\ UNCHANGED <<text, grammar, s, position, result>>

Scan ==
    /\ pc = "scan"
    /\ \E m \in OrderModes :
           Continue(scan(sets, position, s[position + 1], m), "complete")
    /\ UNCHANGED <<text, grammar, s, position, old_size, result>>

\* complete, then the test that ends the loop of the position
Complete ==
    /\ pc = "complete"
    /\ \E m \in OrderModes :
           LET out == complete(sets, position, m)
               stable == SetLen(out.sets, position) = old_size
               more == position + 1 < Len(s)
           IN /\ Continue(out, IF ~stable \/ more THEN "prediction"
                               ELSE "last_prediction")
              /\ position' = IF out.panic \/ ~stable THEN position
                             ELSE IF more THEN position + 1
                             ELSE last(s)
    /\ UNCHANGED <<text, grammar, s, old_size, result>>

\* a round of the loop of the last set starts
LastPrediction ==
    /\ pc = "last_prediction"
    /\ old_size' = SetLen(sets, position)
    /\ \E m \in OrderModes :
           Continue(prediction(grammar, sets, position, m), "last_complete")
    /\ UNCHANGED <<text, grammar, s, position, result>>

\* the last set gets one round and no more
LastCompleteOnce ==
    /\ pc = "last_complete"
    /\ \E m \in OrderModes :
           Continue(complete(sets, position, m), "collect")
    /\ UNCHANGED <<text, grammar, s, position, old_size, result>>

LastComplete ==
    /\ pc = "last_complete"
    /\ \E m \in OrderModes :
           LET out == complete(sets, position, m)
               stable == SetLen(out.sets, position) = old_size
           IN Continue(out, IF stable THEN "collect" ELSE "last_prediction")
    /\ UNCHANGED <<text, grammar, s, position, old_size, result>>

\* the trees of the accepted states of the last set are built and returned
Collect ==
    /\ pc = "collect"
    /\ IF last(s) \notin DOMAIN sets \/ CollectFails(grammar, sets[last(s)])
       THEN /\ panicked' = TRUE
            /\ pc' = "panic"
            /\ UNCHANGED result
       ELSE /\ \E m \in OrderModes :
                   result' = CollectTrees(grammar, iter(sets[last(s)], m))
            /\ pc' = "done"
            /\ UNCHANGED panicked
    /\ UNCHANGED <<text, grammar, s, sets, position, old_size>>

Next ==
    \/ FromRules
    \/ ParseBegin
    \/ Prediction
    \/ Scan
    \/ Complete
    \/ LastPrediction
    \/ LastComplete
    \/ Collect

Spec == Init /\ [][Next]_vars

\* the outcome of the handler that is called next, under the order mode m
HandlerOutcome(m) ==
    IF pc \in {"prediction", "last_prediction"}
    THEN prediction(grammar, sets, position, m)
    ELSE IF pc = "scan" THEN scan(sets, position, s[position + 1], m)
    ELSE complete(sets, position, m)

\* no step can be taken: the program has ended, or the next handler would
\* grow a set beyond MaxItems
Halted ==
    \/ pc \in {"error", "panic", "done"}
    \/ /\ pc \in {"prediction", "scan", "complete", "last_prediction",
                  "last_complete"}
       /\ \A m \in OrderModes : ~Fits(HandlerOutcome(m).sets)

\* parse runs to its end without suspension: weak fairness of Next,
\* WF_vars(Next), with ENABLED <<Next>>_vars written out as ~Halted
FairSpec == Spec /\ ([]<><<Next>>_vars \/ []<>Halted)

----------------------------------------------------------------------------
(* Grammar::parse as a function of the grammar and the input, the sets     *)
(* iterated in the first order.                                            *)

FirstOrder == [rev |-> FALSE, rot |-> 0]

\* a round of the loop of the position k
Round(g, table, k, next_char) ==
    LET predicted == prediction(g, table, k, FirstOrder).sets
        scanned == scan(predicted, k, next_char, FirstOrder).sets
    IN complete(scanned, k, FirstOrder).sets

\* the loop of the position k: rounds until the set k stops growing
RECURSIVE LoopAt(_, _, _, _)
LoopAt(g, table, k, next_char) ==
    LET after == Round(g, table, k, next_char)
    IN IF SetLen(after, k) = SetLen(table, k) THEN after
       ELSE LoopAt(g, after, k, next_char)

\* for (position, next_char) in s.chars().enumerate(), from position k on
RECURSIVE Positions(_, _, _, _)
Positions(g, table, str, k) ==
    IF k >= Len(str) THEN table
    ELSE Positions(g, LoopAt(g, table, k, str[k + 1]), str, k + 1)

\* the loop of the last set
RECURSIVE LastLoop(_, _, _)
LastLoop(g, table, k) ==
    LET after == complete(prediction(g, table, k, FirstOrder).sets, k,
                          FirstOrder).sets
    IN IF SetLen(after, k) = SetLen(table, k) THEN after
       ELSE LastLoop(g, after, k)

\* the trees that parse returns
ParseTrees(g, str) ==
    LET table == LastLoop(g, Positions(g, InitialTable(g, str), str, 0),
                          last(str))
    IN CollectTrees(g, iter(table[last(str)], FirstOrder))

----------------------------------------------------------------------------
(* What the claims speak of.                                               *)

\* evaluate_parse_tree of the tests: the leaves of a tree, left to right
RECURSIVE evaluate_parse_tree(_)
RECURSIVE EvaluateChildren(_)
EvaluateChildren(children) ==
    IF children = <<>> THEN <<>>
    ELSE evaluate_parse_tree(Head(children))
             \o EvaluateChildren(Tail(children))

evaluate_parse_tree(root) ==
    IF root.token.kind = "T" THEN root.token.sym
    ELSE EvaluateChildren(root.children)

Returned == {result[i] : i \in 1..Len(result)}

----------------------------------------------------------------------------
(* Derivations, as the grammar defines them and without a chart.           *)

RuleSet(g) == {g.rules[i] : i \in 1..Len(g.rules)}

Spans(str) == {sp \in (0..Len(str)) \X (0..Len(str)) : sp[1] <= sp[2]}

\* the tokens to derive the characters i+1..j of str, when <<nt, i, j>> in
\* known says that nt derives the characters i+1..j
RECURSIVE TokensDerive(_, _, _, _, _)
TokensDerive(to, i, j, str, known) ==
    IF to = <<>> THEN i = j
    ELSE IF Head(to).kind = "T"
    THEN /\ i < j
         /\ str[i + 1] = Head(to).sym[1]
         /\ TokensDerive(Tail(to), i + 1, j, str, known)
    ELSE \E mid \in i..j :
             /\ <<Head(to).sym, i, mid>> \in known
             /\ TokensDerive(Tail(to), mid, j, str, known)

\* the least set of <<nt, i, j>> closed under the rules
RECURSIVE DerivableFrom(_, _, _)
DerivableFrom(rules, str, known) ==
    LET next == known \cup
                {d \in {<<r.from, sp[1], sp[2]>> : r \in rules,
                                                   sp \in Spans(str)} :
                     \E r \in rules :
                         /\ r.from = d[1]
                         /\ TokensDerive(r.to, d[2], d[3], str, known)}
    IN IF next = known THEN known ELSE DerivableFrom(rules, str, next)

Derivable(rules, str) == DerivableFrom(rules, str, {})

\* str is a word of the language of g
InLanguage(g, str) ==
    <<g.start, 0, Len(str)>> \in Derivable(RuleSet(g), str)

\* <<a, b>>: a derivation of the characters i+1..j from a can have a child
\* b that derives the same characters, its siblings deriving nothing
SameSpanChild(rules, str, i, j) ==
    LET known == Derivable(rules, str)
        lhs == {r.from : r \in rules}
    IN {pair \in lhs \X lhs :
            \E r \in rules : \E p \in 1..Len(r.to) :
                /\ r.from = pair[1]
                /\ r.to[p] = NT(pair[2])
                /\ <<pair[2], i, j>> \in known
                /\ TokensDerive(SubSeq(r.to, 1, p - 1), i, i, str, known)
                /\ TokensDerive(SubSeq(r.to, p + 1, Len(r.to)), j, j, str,
                                known)}

RECURSIVE TransitiveClosure(_)
TransitiveClosure(rel) ==
    LET linked == rel \cup {pr \in {<<x[1], y[2]>> : x \in rel, y \in rel} :
                               \E x \in rel : \E y \in rel :
                                   /\ x[2] = y[1]
                                   /\ pr = <<x[1], y[2]>>}
    IN IF linked = rel THEN rel ELSE TransitiveClosure(linked)

\* some part of str has derivation trees without end from some nonterminal
Unbounded(rules, str) ==
    \E sp \in Spans(str) :
        \E pair \in TransitiveClosure(SameSpanChild(rules, str, sp[1], sp[2])) :
            pair[1] = pair[2]

\* An entry [nt, i, j, tree]: tree is a derivation tree of the characters
\* i+1..j of str from nt.  The sequences of child trees for the tokens to:
RECURSIVE ChildTrees(_, _, _, _, _)
ChildTrees(to, i, j, str, entries) ==
    IF to = <<>> THEN (IF i = j THEN {<<>>} ELSE {})
    ELSE IF Head(to).kind = "T"
    THEN IF i < j /\ str[i + 1] = Head(to).sym[1]
         THEN {<<ParseNode(Head(to), <<>>)>> \o rest :
                   rest \in ChildTrees(Tail(to), i + 1, j, str, entries)}
         ELSE {}
    ELSE UNION {{<<e.tree>> \o rest :
                     rest \in ChildTrees(Tail(to), e.j, j, str, entries)} :
                e \in {x \in entries :
                           x.nt = Head(to).sym /\ x.i = i /\ x.j <= j}}

\* the entries whose trees have their children among the trees of entries
TreesOver(rules, str, entries) ==
    UNION {{[nt |-> r.from, i |-> sp[1], j |-> sp[2],
             tree |-> ParseNode(NT(r.from), kids)] :
                kids \in ChildTrees(r.to, sp[1], sp[2], str, entries)} :
           r \in rules, sp \in Spans(str)}

\* all entries; there are finitely many unless Unbounded(rules, str)
RECURSIVE TreesFrom(_, _, _)
TreesFrom(rules, str, entries) ==
    LET next == TreesOver(rules, str, entries)
    IN IF next = entries THEN entries ELSE TreesFrom(rules, str, next)

\* the derivation trees of the whole of str from the start symbol
Derivations(g, str) ==
    {e.tree : e \in {x \in TreesFrom(RuleSet(g), str, {}) :
                         x.nt = g.start /\ x.i = 0 /\ x.j = Len(str)}}

----------------------------------------------------------------------------
(* C1  Soundness: every tree parse returns has the start nonterminal at    *)
(* its root, and its terminal leaves, read left to right, are the input.   *)

C1_Soundness ==
    pc = "done" =>
        \A tree \in Returned :
            /\ tree.token = NT(grammar.start)
            /\ evaluate_parse_tree(tree) = s

\* two different trees of an input of three characters were returned
C1_Witness ==
    /\ pc = "done"
    /\ Len(s) = 3
    /\ Cardinality(Returned) >= 2

----------------------------------------------------------------------------
(* C2  Completeness: when the derivation trees of the parts of the input   *)
(* are finitely many, parse returns as many trees as the input has derivation trees     *)
(* from the start symbol, and these trees are the derivation trees.        *)

C2_Completeness ==
    (pc = "done" /\ ~Unbounded(RuleSet(grammar), s)) =>
        /\ Len(result) = Cardinality(Derivations(grammar, s))
        /\ Returned = Derivations(grammar, s)

\* S -> S S | a on aaa: the two trees of the Catalan count
C2_Witness ==
    /\ pc = "done"
    /\ s = <<"a", "a", "a">>
    /\ RuleSet(grammar) = {Rule(<<"S">>, <<NT(<<"S">>), NT(<<"S">>)>>),
                           Rule(<<"S">>, <<T("a")>>)}
    /\ ~Unbounded(RuleSet(grammar), s)
    /\ Len(result) = 2

----------------------------------------------------------------------------
(* C3  Non-recognition: parse returns no tree for a string that the start  *)
(* symbol does not derive.                                                 *)

C3_NonRecognition ==
    (pc = "done" /\ ~InLanguage(grammar, s)) => result = <<>>

\* a word of the language with one more character: the last set holds a
\* finished state of the start symbol that began after position 0
C3_Witness ==
    /\ pc = "done"
    /\ s # <<>>
    /\ ~InLanguage(grammar, s)
    /\ InLanguage(grammar, SubSeq(s, 1, Len(s) - 1))
    /\ \E state \in sets[last(s)] :
           /\ state.rule.from = grammar.start
           /\ is_finished(state)
           /\ state.origin > 0
    /\ result = <<>>

----------------------------------------------------------------------------
(* C4  parse has no error outcome: no step panics; every index of a chart  *)
(* set that a step uses is one of 0..s.len(); the dot of a state is never  *)
(* beyond its rule, so a state that is not finished has a current token;   *)
(* a finished state has a child for every nonterminal of its rule, here    *)
(* and below; and after a character that is no terminal of the grammar the *)
(* sets and the result are empty.                                          *)

InParse ==
    pc \in {"prediction", "scan", "complete", "last_prediction",
            "last_complete", "collect", "done"}

C4_NoError ==
    /\ ~panicked
    /\ pc # "panic"
    /\ InParse =>
           /\ DOMAIN sets = 0..str_len(s)
           /\ position \in DOMAIN sets
           /\ pc \in {"prediction", "scan", "complete"} =>
                  position + 1 \in DOMAIN sets
           /\ \A k \in DOMAIN sets : \A state \in sets[k] :
                  /\ state.origin \in DOMAIN sets
                  /\ state.dot <= Len(state.rule.to)
                  /\ is_finished(state) => ~unwrap_fails(state)
           /\ \A p \in 1..Len(s) :
                  s[p] \notin grammar.terminals =>
                      /\ \A k \in p..str_len(s) : sets[k] = {}
                      /\ result = <<>>

\* parse returned for an input whose second or later character is outside
\* ASCII, after states had been scanned into the set before it
C4_Witness ==
    /\ pc = "done"
    /\ \E p \in 2..Len(s) :
           /\ s[p] = EAcute
           /\ sets[p - 1] # {}
           /\ sets[p] = {}
    /\ result = <<>>

----------------------------------------------------------------------------
(* C5  Epsilon handling: at a position whose loop has ended, a state that  *)
(* waits for a nonterminal that derives the empty string (by an empty rule *)
(* or by a chain of rules that ends in one) has been advanced over a       *)
(* finished state of that nonterminal that began at the same position; the *)
(* tree of a finished state of an empty rule is a nonterminal node without *)
(* children; and in a returned tree a node without children is a terminal  *)
(* or a nonterminal that has an empty rule.                                *)

\* the positions whose loop has ended
Closed ==
    IF pc \in {"prediction", "scan", "complete"} THEN 0..(position - 1)
    ELSE IF pc \in {"last_prediction", "last_complete"}
    THEN DOMAIN sets \ {position}
    ELSE IF pc \in {"collect", "done"} THEN DOMAIN sets
    ELSE {}

\* the nodes of a tree
RECURSIVE Nodes(_)
Nodes(tree) ==
    {tree} \cup UNION {Nodes(tree.children[i]) : i \in 1..Len(tree.children)}

C5_Epsilon ==
    /\ \A k \in Closed : \A waiting \in sets[k] :
           (/\ ~is_finished(waiting)
            /\ current_token(waiting).kind = "NT"
            /\ k <= Len(s)
            /\ <<current_token(waiting).sym, k, k>>
                   \in Derivable(RuleSet(grammar), s))
           => \E state \in sets[k] :
                  /\ state.rule = waiting.rule
                  /\ state.dot = waiting.dot + 1
                  /\ state.origin = waiting.origin
                  /\ Len(state.children) = Len(waiting.children) + 1
                  /\ SubSeq(state.children, 1, Len(waiting.children))
                         = waiting.children
                  /\ LET child == state.children[Len(state.children)]
                     IN /\ is_finished(child)
                        /\ child.origin = k
                        /\ child.rule.from = current_token(waiting).sym
                        /\ evaluate_parse_tree(build_parse_tree(child)) = <<>>
    /\ InParse =>
           \A k \in DOMAIN sets : \A state \in sets[k] :
               (is_finished(state) /\ state.rule.to = <<>>) =>
                   build_parse_tree(state) = ParseNode(NT(state.rule.from), <<>>)
    /\ \A tree \in Returned : \A node \in Nodes(tree) :
           node.children = <<>> =>
               \/ node.token.kind = "T"
               \/ Rule(node.token.sym, <<>>) \in RuleSet(grammar)

\* S -> C a C, C -> D, D -> (empty) on a: C matches nothing at position 0
\* and at the last position, each time through D
C5_Witness ==
    /\ pc = "done"
    /\ s = <<"a">>
    /\ LET d == ParseNode(NT(<<"D">>), <<>>)
           c == ParseNode(NT(<<"C">>), <<d>>)
       IN result = <<ParseNode(NT(<<"S">>),
                               <<c, ParseNode(T("a"), <<>>), c>>)>>

----------------------------------------------------------------------------
(* C6  Determinism of count: the table a handler leaves and the trees      *)
(* parse returns are the same for every order in which the sets are        *)
(* iterated; only the order of the returned trees depends on it.           *)

\* every order of a set
RECURSIVE AllOrders(_)
AllOrders(set) ==
    IF set = {} THEN {<<>>}
    ELSE UNION {{<<x>> \o order : order \in AllOrders(set \ {x})} : x \in set}

\* every order of a set of MaxPermSet items or less
Perms(set) ==
    IF Cardinality(set) > MaxPermSet THEN {} ELSE AllOrders(set)

\* the orders that are compared
Orders(set) == {iter(set, m) : m \in OrderModes} \cup Perms(set)

SameTrees(trees, other) ==
    /\ Len(trees) = Len(other)
    /\ {trees[i] : i \in 1..Len(trees)} = {other[i] : i \in 1..Len(other)}

\* a step of a handler, which is taken in an order of OrderModes, leaves the
\* table that the handler leaves in the first order and in every order of
\* Perms; the trees that are returned are those of every order
OrderFree ==
    /\ (pc \in {"prediction", "last_prediction"} /\ pc' # "panic") =>
           /\ sets' = prediction(grammar, sets, position, FirstOrder).sets
           /\ \A order \in Perms(sets[position]) :
                  sets'[position] =
                      insert_all(sets[position],
                                 PredictionToAdd(grammar, order, position))
    /\ (pc = "scan" /\ pc' # "panic") =>
           /\ sets' = scan(sets, position, s[position + 1], FirstOrder).sets
           /\ \A order \in Perms(sets[position]) :
                  sets'[position + 1] =
                      insert_all(sets[position + 1],
                                 ScanToAdd(order, s[position + 1]))
    /\ (pc \in {"complete", "last_complete"} /\ pc' # "panic") =>
           /\ sets' = complete(sets, position, FirstOrder).sets
           /\ \A order \in Perms(sets[position]) :
                  sets'[position] =
                      insert_all(sets[position],
                                 CompleteToAdd(sets, order, FirstOrder))
    /\ (pc = "collect" /\ pc' = "done") =>
           \A order \in Orders(sets[last(s)]) :
               SameTrees(result', CollectTrees(grammar, order))

C6_Determinism == [][OrderFree]_vars

\* trees were returned in an order that is not the order of the first mode
C6_Witness ==
    /\ pc = "done"
    /\ Len(result) >= 2
    /\ result # CollectTrees(grammar,
                             iter(sets[last(s)], [rev |-> FALSE, rot |-> 0]))
    /\ SameTrees(result,
                 CollectTrees(grammar,
                              iter(sets[last(s)], [rev |-> FALSE, rot |-> 0])))

----------------------------------------------------------------------------
(* C7  Termination: a round of the loop of a position notes the size of    *)
(* the set of the position when it starts; when it ends the set is larger  *)
(* and the loop goes on, or the set has that size and the loop stops; and  *)
(* when no nonterminal of the grammar derives itself, every call of parse  *)
(* returns.                                                                *)

\* the nonterminals that derive the empty string
RECURSIVE NullableFrom(_, _)
NullableFrom(rules, known) ==
    LET next == known \cup
                {r.from : r \in {x \in rules :
                     \A p \in 1..Len(x.to) :
                         x.to[p].kind = "NT" /\ x.to[p].sym \in known}}
    IN IF next = known THEN known ELSE NullableFrom(rules, next)

\* <<a, b>>: a derives b alone in one step
DerivesAlone(rules) ==
    LET nullable == NullableFrom(rules, {})
        lhs == {r.from : r \in rules}
    IN {pair \in lhs \X lhs :
            \E r \in rules : \E p \in 1..Len(r.to) :
                /\ r.from = pair[1]
                /\ r.to[p] = NT(pair[2])
                /\ \A q \in (1..Len(r.to)) \ {p} :
                       r.to[q].kind = "NT" /\ r.to[q].sym \in nullable}

\* no nonterminal derives itself: no cycle of unit rules or of empty rules
NoCycle(rules) ==
    \A pair \in TransitiveClosure(DerivesAlone(rules)) : pair[1] # pair[2]

RoundStep ==
    /\ (pc \in {"prediction", "last_prediction"} /\ pc' # "panic") =>
           /\ old_size' = Cardinality(sets[position])
           /\ position' = position
    /\ (pc = "complete" /\ pc' # "panic") =>
           \/ /\ Cardinality(sets'[position]) > old_size
              /\ pc' = "prediction"
              /\ position' = position
           \/ /\ Cardinality(sets'[position]) = old_size
              /\ \/ position + 1 < Len(s) /\ pc' = "prediction"
                                          /\ position' = position + 1
                 \/ position + 1 = Len(s) /\ pc' = "last_prediction"
                                          /\ position' = last(s)
    /\ (pc = "last_complete" /\ pc' # "panic") =>
           \/ /\ Cardinality(sets'[position]) > old_size
              /\ pc' = "last_prediction"
           \/ /\ Cardinality(sets'[position]) = old_size
              /\ pc' = "collect"

C7_Termination ==
    /\ [][RoundStep]_vars
    /\ (pc = "ready" /\ NoCycle(RuleSet(grammar))) ~> (pc = "done")

\* a round that follows a round in which the set grew, no nonterminal of
\* the grammar deriving itself
C7_Witness ==
    /\ pc = "scan"
    /\ NoCycle(RuleSet(grammar))
    /\ old_size > Cardinality(InitialTable(grammar, s)[0])
    /\ position = 0

----------------------------------------------------------------------------
(* C8  A rule that is listed more than once does not multiply derivations: *)
(* the states made from two rules with the same left-hand side and the     *)
(* same right-hand side are one item of a set, and parse returns as many   *)
(* trees as it returns for the grammar without the repeated rules.         *)

HasDuplicate(g) ==
    \E i, j \in 1..Len(g.rules) : i < j /\ g.rules[i] = g.rules[j]

\* rules without the rules that were listed before
RECURSIVE DedupRules(_)
DedupRules(rules) ==
    IF rules = <<>> THEN <<>>
    ELSE LET front == SubSeq(rules, 1, Len(rules) - 1)
             rule == rules[Len(rules)]
         IN IF \E i \in 1..Len(front) : front[i] = rule
            THEN DedupRules(front)
            ELSE Append(DedupRules(front), rule)

\* the grammar of the text of g with every repeated rule line removed
Dedup(g) == [g EXCEPT !.rules = DedupRules(g.rules)]

C8_DuplicateRules ==
    (pc = "done" /\ HasDuplicate(grammar)) =>
        /\ \A i, j \in 1..Len(grammar.rules) :
               grammar.rules[i] = grammar.rules[j] =>
                   insert({EarleyState(RuleRef(grammar.rules, i), 0, 0, <<>>)},
                          EarleyState(RuleRef(grammar.rules, j), 0, 0, <<>>))
                       = {EarleyState(RuleRef(grammar.rules, i), 0, 0, <<>>)}
        /\ Len(result) = Len(ParseTrees(Dedup(grammar), s))

\* a tree was returned for a grammar that lists a rule twice and uses it
C8_Witness ==
    /\ pc = "done"
    /\ HasDuplicate(grammar)
    /\ Len(grammar.rules) > Len(Dedup(grammar).rules)
    /\ Len(result) = 1
    /\ \E i, j \in 1..Len(grammar.rules) :
           /\ i < j
           /\ grammar.rules[i] = grammar.rules[j]
           /\ \E node \in Nodes(result[1]) :
                  /\ node.token = NT(grammar.rules[i].from)
                  /\ [p \in 1..Len(node.children) |-> node.children[p].token]
                         = grammar.rules[i].to

----------------------------------------------------------------------------
(* C9  Ambiguity is not merged.  A handler leaves in a set the states that *)
(* were there and every state it made: a state is left out only when the   *)
(* set holds a state with the same rule, dot, origin and children.  When   *)
(* parse has ended and the derivation trees are finitely many, a set holds *)
(* as many states with the rule, dot and origin of one of its states as    *)
(* there are ways to derive the characters from the origin to the set from *)
(* the tokens before the dot, and the trees of the finished ones are the   *)
(* derivation trees made by the rule.                                      *)

\* the states a handler makes at the next step, in the order mode m
ToAdd(m) ==
    IF pc \in {"prediction", "last_prediction"}
    THEN PredictionToAdd(grammar, iter(sets[position], m), position)
    ELSE IF pc = "scan"
    THEN ScanToAdd(iter(sets[position], m), s[position + 1])
    ELSE CompleteToAdd(sets, iter(sets[position], m), m)

\* the set the handler of the next step adds to
Target == IF pc = "scan" THEN position + 1 ELSE position

NothingMerged ==
    (/\ pc \in {"prediction", "scan", "complete", "last_prediction",
                "last_complete"}
     /\ pc' # "panic")
    => \E m \in OrderModes :
           LET to_add == ToAdd(m)
           IN sets'[Target] =
                  sets[Target] \cup {to_add[i] : i \in 1..Len(to_add)}

\* the states of set with the rule, dot and origin of state
Alike(set, state) ==
    {other \in set : /\ other.rule = state.rule
                     /\ other.dot = state.dot
                     /\ other.origin = state.origin}

EveryHistoryKept ==
    (pc = "done" /\ ~Unbounded(RuleSet(grammar), s)) =>
        LET entries == TreesFrom(RuleSet(grammar), s, {})
        IN \A k \in 0..Len(s) : \A state \in sets[k] :
               /\ Cardinality(Alike(sets[k], state)) =
                      Cardinality(ChildTrees(SubSeq(state.rule.to, 1,
                                                    state.dot),
                                             state.origin, k, s, entries))
               /\ is_finished(state) =>
                      {build_parse_tree(other) :
                           other \in Alike(sets[k], state)}
                          = {ParseNode(NT(state.rule.from), kids) :
                                 kids \in ChildTrees(state.rule.to,
                                                     state.origin, k, s,
                                                     entries)}

C9_NoMerging == [][NothingMerged]_vars /\ []EveryHistoryKept

\* a set holds two states with the same rule, dot and origin
C9_Witness ==
    /\ pc = "done"
    /\ ~Unbounded(RuleSet(grammar), s)
    /\ \E k \in DOMAIN sets : \E a, b \in sets[k] :
           /\ a # b
           /\ a.rule = b.rule
           /\ a.dot = b.dot
           /\ a.origin = b.origin
           /\ is_finished(a)

----------------------------------------------------------------------------
(* C10  from_rules fails with MissingStart when and only when the text is  *)
(* empty; it fails with InvalidStart when and only when the text has a     *)
(* first line that is not, between white space, one or more uppercase      *)
(* letters; in both cases there is no grammar and parse is not reached; a  *)
(* text with such a first line and no line after it gives a grammar with   *)
(* that start symbol and no rules.                                         *)

\* the characters of str before its first line feed
FirstLine(str) ==
    SubSeq(str, 1,
           Cardinality({n \in 1..Len(str) :
                           \A i \in 1..n : str[i] # NL}))

\* white space, one or more uppercase letters, white space
BareNonterminal(str) ==
    \E i, j \in 1..Len(str) :
        /\ i <= j
        /\ \A p \in 1..Len(str) :
               IF i <= p /\ p <= j THEN str[p] \in UpperChars
               ELSE str[p] \in WhiteSpace

\* the uppercase letters of str
UpperPart(str) == SelectSeq(str, LAMBDA c : c \in UpperChars)

\* str has no line feed but, at most, one at its end
OneLine(str) == \A i \in 1..(Len(str) - 1) : str[i] # NL

C10_StartErrors ==
    pc # "from_rules" =>
        /\ grammar.err = "MissingStart" <=> text = <<>>
        /\ grammar.err = "InvalidStart" <=>
               (text # <<>> /\ ~BareNonterminal(FirstLine(text)))
        /\ grammar.err \in {"MissingStart", "InvalidStart"} =>
               /\ ~IsOk(grammar)
               /\ "rules" \notin DOMAIN grammar
               /\ pc = "error"
               /\ sets = EarleyTableNew(0)
               /\ result = <<>>
        /\ (/\ text # <<>>
            /\ BareNonterminal(FirstLine(text))
            /\ OneLine(text)) =>
               /\ IsOk(grammar)
               /\ grammar.rules = <<>>
               /\ grammar.start = UpperPart(FirstLine(text))

\* a first line with a nonterminal and more was refused
C10_Witness ==
    /\ pc = "error"
    /\ grammar.err = "InvalidStart"
    /\ \E i \in 1..Len(text) : text[i] \in UpperChars

----------------------------------------------------------------------------
(* C11  When a line after the start line does not have the rule form,      *)
(* from_rules fails with InvalidRule for the first such line, there is no  *)
(* grammar, and line_num is the number of that line in the text, the       *)
(* start line being line 1.                                                *)

\* the lines of str after the first that do not have the rule form, by
\* their number in str
BadLines(str) ==
    {n \in 2..Len(lines(str)) : ~rule_regex(trim(lines(str)[n]))}

\* the least number of a set of numbers that is not empty
Least(set) == CHOOSE n \in set : \A other \in set : n <= other

C11_InvalidRuleLine ==
    (/\ pc # "from_rules"
     /\ text # <<>>
     /\ BareNonterminal(FirstLine(text))
     /\ BadLines(text) # {}) =>
        /\ grammar.err = "InvalidRule"
        /\ pc = "error"
        /\ "rules" \notin DOMAIN grammar
        /\ grammar.line_num = Least(BadLines(text))

----------------------------------------------------------------------------
(* C12  Only the lines after the start line that are not blank have to be  *)
(* rules: a text whose lines after the first are blank or have the rule    *)
(* form gives a grammar, with the rules of the text without its blank      *)
(* lines; a line with no token after -> gives a rule with an empty         *)
(* right-hand side.                                                        *)

\* the lines ls without the blank ones
RECURSIVE NonBlank(_)
NonBlank(ls) ==
    IF ls = <<>> THEN <<>>
    ELSE (IF trim(Head(ls)) = <<>> THEN <<>> ELSE <<Head(ls)>>)
             \o NonBlank(Tail(ls))

\* str without the blank lines after its first line
WithoutBlankLines(str) ==
    JoinLines(<<Head(lines(str))>> \o NonBlank(Tail(lines(str))))

C12_BlankLines ==
    (/\ pc # "from_rules"
     /\ text # <<>>
     /\ BareNonterminal(FirstLine(text))
     /\ \A n \in BadLines(text) : trim(lines(text)[n]) = <<>>) =>
        /\ IsOk(grammar)
        /\ grammar.rules = from_rules(WithoutBlankLines(text)).rules
        /\ \A n \in 2..Len(lines(text)) :
               trim(lines(text)[n]) = <<"S", " ", "-", ">">> =>
                   \E i \in 1..Len(grammar.rules) :
                       grammar.rules[i] = Rule(<<"S">>, <<>>)

----------------------------------------------------------------------------
(* C13  Children count: every state of every set, and every state among    *)
(* the children of one, has as many children as there are nonterminals     *)
(* among the tokens before its dot; a finished state has as many children  *)
(* as its rule has nonterminals on the right, and build_parse_tree finds   *)
(* the child it asks for.                                                  *)

\* the number of nonterminals among tokens
NonterminalCount(tokens) ==
    Cardinality({i \in 1..Len(tokens) : tokens[i].kind = "NT"})

RECURSIVE ChildrenCounted(_)
ChildrenCounted(state) ==
    /\ state.dot <= Len(state.rule.to)
    /\ Len(state.children)
           = NonterminalCount(SubSeq(state.rule.to, 1, state.dot))
    /\ \A i \in 1..Len(state.children) :
           ChildrenCounted(state.children[i])

C13_ChildrenCount ==
    /\ pc # "panic"
    /\ InParse =>
           \A k \in DOMAIN sets : \A state \in sets[k] :
               /\ ChildrenCounted(state)
               /\ is_finished(state) =>
                      /\ Len(state.children)
                             = NonterminalCount(state.rule.to)
                      /\ ~unwrap_fails(state)
                      /\ Len(build_parse_tree(state).children)
                             = Len(state.rule.to)

\* a tree was built from a state whose rule has terminals and nonterminals
C13_Witness ==
    /\ pc = "done"
    /\ result # <<>>
    /\ \E state \in sets[last(s)] :
           /\ Accepted(grammar, state)
           /\ Len(state.children) >= 1
           /\ Len(state.children) < Len(state.rule.to)
           /\ \E i \in 1..Len(state.children) :
                  state.children[i].children # <<>>

----------------------------------------------------------------------------
(* C14  The sets only grow and a step touches only its own set: a step of  *)
(* parse removes no state from a set; prediction and complete add to the   *)
(* set of the position only, scan to the set after it only, and the other  *)
(* sets are left as they are; the building of the trees changes no set;    *)
(* while the position k is worked on, every set after k + 1 is empty.      *)

GrowsInPlace ==
    /\ pc \in {"prediction", "scan", "complete", "last_prediction",
               "last_complete"} =>
           /\ DOMAIN sets' = DOMAIN sets
           /\ \A j \in DOMAIN sets :
                  /\ sets[j] \subseteq sets'[j]
                  /\ j # Target => sets'[j] = sets[j]
    /\ pc \in {"collect", "done"} => sets' = sets

NothingAhead ==
    pc \in {"prediction", "scan", "complete"} =>
        \A j \in DOMAIN sets : j > position + 1 => sets[j] = {}

C14_Frame == [][GrowsInPlace]_vars /\ []NothingAhead

\* the second position is worked on: the first set and the third set hold
\* states, the fourth is empty
C14_Witness ==
    /\ pc = "complete"
    /\ position = 1
    /\ Len(s) = 3
    /\ sets[0] # {}
    /\ sets[2] # {}
    /\ sets[3] = {}
    /\ Cardinality(sets[1]) > old_size

----------------------------------------------------------------------------
(* C15  Closure at the end of a loop: a set whose loop has ended holds,    *)
(* for each of its unfinished states that expects a nonterminal, the state *)
(* with dot 0, origin the set and no children of every rule of that        *)
(* nonterminal; and, for each of its finished states and each unfinished   *)
(* state of the set of its origin that expects its nonterminal, that       *)
(* state advanced by one with the finished state added to its children.    *)

ClosedUnderPrediction(k) ==
    \A state \in sets[k] :
        (~is_finished(state) /\ current_token(state).kind = "NT") =>
            \A i \in 1..Len(grammar.rules) :
                grammar.rules[i].from = current_token(state).sym =>
                    EarleyState(grammar.rules[i], 0, k, <<>>) \in sets[k]

ClosedUnderCompletion(k) ==
    \A state \in sets[k] :
        is_finished(state) =>
            \A waiting \in sets[state.origin] :
                (/\ ~is_finished(waiting)
                 /\ current_token(waiting) = NT(state.rule.from)) =>
                    EarleyState(waiting.rule, waiting.dot + 1,
                                waiting.origin,
                                Append(waiting.children, state)) \in sets[k]

C15_Closure ==
    \A k \in Closed : ClosedUnderPrediction(k) /\ ClosedUnderCompletion(k)

\* in the last set a state was finished over states that were finished in
\* that set: more than one round was needed
C15_Witness ==
    /\ pc = "done"
    /\ s # <<>>
    /\ \E state \in sets[last(s)] :
           /\ is_finished(state)
           /\ state.origin = last(s)
           /\ state.children # <<>>
    /\ result # <<>>

----------------------------------------------------------------------------
(* C16  Scan misses nothing and adds nothing else: at the step that ends   *)
(* the loop of a position, the set after it holds the unfinished states of *)
(* the set of the position that expect the terminal that is the character  *)
(* at the position, each advanced by one with its rule, origin and         *)
(* children, and no other state; and in every set the states whose dot     *)
(* stands after a terminal are those scanned from the set before, whose    *)
(* loop has ended.                                                         *)

\* the states of set that expect the terminal c, advanced by one
Scanned(set, c) ==
    {EarleyState(state.rule, state.dot + 1, state.origin, state.children) :
         state \in {x \in set : /\ ~is_finished(x)
                                /\ current_token(x) = T(c)}}

\* the states of set whose dot stands after a terminal
AfterTerminal(set) ==
    {state \in set : /\ state.dot >= 1
                     /\ state.rule.to[state.dot].kind = "T"}

ScanExact ==
    (pc = "complete" /\ pc' # "panic" /\ position' # position) =>
        sets'[position + 1] = Scanned(sets'[position], s[position + 1])

ScannedFromClosed ==
    \A k \in Closed :
        (k < Len(s) /\ k + 1 \in DOMAIN sets) =>
            AfterTerminal(sets[k + 1]) = Scanned(sets[k], s[k + 1])

C16_ScanExact == [][ScanExact]_vars /\ []ScannedFromClosed

\* the loop of a position has ended and the next has not begun: the set of
\* the next position holds scanned states only, one of them with a child
\* it got by a completion at the position before
C16_Witness ==
    /\ pc = "prediction"
    /\ position >= 1
    /\ sets[position] # {}
    /\ sets[position] = AfterTerminal(sets[position])
    /\ \E state \in sets[position] :
           /\ state.children # <<>>
           /\ state.children[Len(state.children)].origin = position - 1

----------------------------------------------------------------------------
(* C17  Acceptance filter: parse returns one tree for each state of the    *)
(* last set that is finished, has origin 0 and a rule of the start symbol, *)
(* the tree built from that state, and no other tree: the result has as    *)
(* many trees as there are such states.                                    *)

\* the states of the last set that are accepted derivations
AcceptedStates ==
    {state \in sets[last(s)] : /\ state.dot = Len(state.rule.to)
                               /\ state.origin = 0
                               /\ state.rule.from = grammar.start}

C17_AcceptanceFilter ==
    pc = "done" =>
        /\ Len(result) = Cardinality(AcceptedStates)
        /\ Returned = {build_parse_tree(state) : state \in AcceptedStates}
        /\ \A tree \in Returned :
               Cardinality({i \in 1..Len(result) : result[i] = tree}) =
                   Cardinality({state \in AcceptedStates :
                                    build_parse_tree(state) = tree})

\* trees were returned, and the last set also holds a finished state of the
\* start symbol with a later origin and an unfinished state of origin 0
C17_Witness ==
    /\ pc = "done"
    /\ result # <<>>
    /\ \E state \in sets[last(s)] :
           /\ state.rule.from = grammar.start
           /\ is_finished(state)
           /\ state.origin > 0
    /\ \E state \in sets[last(s)] :
           ~is_finished(state) /\ state.origin = 0
    /\ Cardinality(sets[last(s)]) > Len(result) + 1

----------------------------------------------------------------------------
(* C18  Shape of the trees: for every finished state of a set,             *)
(* build_parse_tree gives a node with the nonterminal of the rule and one  *)
(* child for each token of the right-hand side, in order: a leaf with the  *)
(* terminal for a terminal, and for the i-th nonterminal the tree of the   *)
(* i-th child of the state; the node is the same for any dot and origin.   *)

Shaped(state) ==
    LET tree == build_parse_tree(state)
        to == state.rule.to
    IN /\ tree.token = NT(state.rule.from)
       /\ Len(tree.children) = Len(to)
       /\ \A p \in 1..Len(to) :
              IF to[p].kind = "T"
              THEN tree.children[p] = ParseNode(to[p], <<>>)
              ELSE LET child ==
                           state.children[NonterminalCount(SubSeq(to, 1, p))]
                   IN /\ tree.children[p] = build_parse_tree(child)
                      /\ tree.children[p].token = to[p]
       /\ \A dot \in 0..Len(to) : \A origin \in DOMAIN sets :
              build_parse_tree(EarleyState(state.rule, dot, origin,
                                           state.children)) = tree

C18_TreeShape ==
    InParse =>
        \A k \in DOMAIN sets : \A state \in sets[k] :
            is_finished(state) => Shaped(state)

\* a tree was returned for a state whose rule has a terminal before a
\* nonterminal, the child being a tree with children of its own
C18_Witness ==
    /\ pc = "done"
    /\ \E state \in AcceptedStates :
           /\ Len(state.rule.to) >= 2
           /\ state.rule.to[1].kind = "T"
           /\ state.rule.to[2].kind = "NT"
           /\ state.children[1].rule.to # <<>>
           /\ build_parse_tree(state) \in Returned

----------------------------------------------------------------------------
(* C19  Span: for every state of a set k, with origin o, each child is a   *)
(* finished state of a rule of the nonterminal it stands for among the     *)
(* tokens before the dot, and the terminals before the dot together with   *)
(* the terminals the children derive, in the order of the right-hand side, *)
(* are the characters of the input from o to k.                            *)

\* the characters a state derives with the tokens before its dot
RECURSIVE Yield(_)
RECURSIVE YieldOf(_, _)
YieldOf(tokens, children) ==
    IF tokens = <<>> THEN <<>>
    ELSE IF Head(tokens).kind = "T"
    THEN Head(tokens).sym \o YieldOf(Tail(tokens), children)
    ELSE Yield(Head(children)) \o YieldOf(Tail(tokens), Tail(children))

Yield(state) ==
    YieldOf(SubSeq(state.rule.to, 1, state.dot), state.children)

\* the places of the nonterminals among the tokens before the dot
NonterminalPlaces(state) ==
    {p \in 1..state.dot : state.rule.to[p].kind = "NT"}

C19_Span ==
    InParse =>
        \A k \in DOMAIN sets : \A state \in sets[k] :
            /\ state.origin <= k
            /\ k <= Len(s)
            /\ Len(state.children) = Cardinality(NonterminalPlaces(state))
            /\ \A p \in NonterminalPlaces(state) :
                   LET child ==
                           state.children[NonterminalCount(
                                              SubSeq(state.rule.to, 1, p))]
                   IN /\ is_finished(child)
                      /\ NT(child.rule.from) = state.rule.to[p]
            /\ Yield(state) = SubSeq(s, state.origin + 1, k)

\* a state that begins after the first character and spans two characters,
\* one by a terminal of its rule and one by a child
C19_Witness ==
    /\ pc = "done"
    /\ \E k \in DOMAIN sets : \E state \in sets[k] :
           /\ state.origin >= 1
           /\ k = state.origin + 2
           /\ state.children # <<>>
           /\ \E p \in 1..state.dot : state.rule.to[p].kind = "T"
           /\ Yield(state.children[1]) # <<>>

----------------------------------------------------------------------------
(* C20  Places: every state of a set k has an origin that is at most k and *)
(* a dot that is at most the length of the right-hand side of its rule; a  *)
(* state with dot 0 of set k has the origin k and no children; and set 0   *)
(* holds the state with dot 0, origin 0 and no children of every rule of   *)
(* the start symbol.                                                       *)

C20_Places ==
    InParse =>
        /\ \A k \in DOMAIN sets : \A state \in sets[k] :
               /\ state.origin >= 0
               /\ state.origin <= k
               /\ state.dot >= 0
               /\ state.dot <= Len(state.rule.to)
               /\ state.dot = 0 =>
                      /\ state.origin = k
                      /\ state.children = <<>>
        /\ \A i \in 1..Len(grammar.rules) :
               grammar.rules[i].from = grammar.start =>
                   [rule |-> grammar.rules[i], dot |-> 0, origin |-> 0,
                    children |-> <<>>] \in sets[0]

\* set 0 holds the states of two rules of the start symbol, and a later
\* set holds a state with dot 0 beside states that came from before
C20_Witness ==
    /\ pc = "done"
    /\ Cardinality({state \in sets[0] :
                        /\ state.dot = 0
                        /\ state.rule.from = grammar.start}) >= 2
    /\ \E k \in DOMAIN sets :
           /\ k >= 2
           /\ \E state \in sets[k] : state.dot = 0
           /\ \E state \in sets[k] : state.origin = 0
           /\ \E state \in sets[k] : state.origin > 0 /\ state.origin < k

----------------------------------------------------------------------------
(* C21  No tree is returned twice: the trees of one call of parse differ   *)
(* from one another, and two different accepted states of the last set are *)
(* not built into the same tree.                                           *)

C21_NoTreeTwice ==
    pc = "done" =>
        /\ \A i, j \in 1..Len(result) : i # j => result[i] # result[j]
        /\ \A a, b \in AcceptedStates :
               a # b => build_parse_tree(a) # build_parse_tree(b)

\* two trees were returned that differ below their roots only: the roots
\* have the same token and children with the same tokens
C21_Witness ==
    /\ pc = "done"
    /\ \E i, j \in 1..Len(result) :
           /\ i < j
           /\ result[i].token = result[j].token
           /\ Len(result[i].children) = Len(result[j].children)
           /\ \A p \in 1..Len(result[i].children) :
                  result[i].children[p].token = result[j].children[p].token
           /\ result[i] # result[j]

====
